---- MODULE Spec2Model ----
(***************************************************************************)
(* A state-machine model of the interaction and animation core of the      *)
(* flight_indicators panel: the lerp animation clock (utils/time lerp),    *)
(* the keyed animation set of the aircraft model (Airplane.addLerp), and   *)
(* the pointer capture dispatcher (Mouse) with the rotatable control that  *)
(* is built on it.                                                         *)
(*                                                                         *)
(* Numbers are integers.  An animated value is held exactly, as the number *)
(* it started from and the lerp steps from + normalized * (to - from) that *)
(* were taken from it; where the easing is compared, its sine is taken     *)
(* from a table of hundred-thousandths at sixteenths of the duration.  The *)
(* clock is in milliseconds.                                               *)
(***************************************************************************)
EXTENDS Integers, Sequences, FiniteSets, TLC

\* ------------------------------------------------------------------ bounds
\* setters are called up to this clock value (ms); the clock then jumps to
\* FarFuture, where every transition has ended
MaxNow == 1000
\* the clock advances in steps of this many ms
ClockStep == 500
\* number of lerp closures created in one behaviour
MaxLerps == 3

\* ------------------------------------------------- aircraft model, inputs
\* the animated fields that are modelled (keys of Airplane.lerps)
Fields == {"airspeed", "rpm"}
\* the values a caller passes to a setter
Values == {0, 120}

\* duration of the transition of every field (ms)
AirspeedTime == 1000
RpmTime == 1000
BarometerTime == 4000
Duration(f) ==
  CASE f = "airspeed" -> AirspeedTime
    [] f = "rpm" -> RpmTime
    [] OTHER -> BarometerTime

\* a clock value at which every transition started up to MaxNow has ended
FarFuture == MaxNow + AirspeedTime + RpmTime + BarometerTime

\* --------------------------------------------------------------- helpers
Min(a, b) == IF a < b THEN a ELSE b

Last(s) == s[Len(s)]

RECURSIVE SortedSeq(_)
\* the elements of a finite set of numbers in ascending order
SortedSeq(S) ==
  IF S = {} THEN <<>>
  ELSE LET m == CHOOSE x \in S : \A y \in S : x <= y
       IN  <<m>> \o SortedSeq(S \ {m})

\* ------------------------------------------------------------------ state
VARIABLES
  now,          \* Date.now()
  framed,       \* a frame has run at the current clock value
  cur,          \* the aircraft fields: cur[f] is this.airspeed, this.rpm
  lerps,        \* Airplane.lerps: key -> lerp closure (0: no entry)
  anim,         \* the lerp closures created so far, by id
  raf,          \* the browser's map of animation frame callbacks: handle -> lerp
                \* whose timer it is (minus the interval whose leading call)
  nextHandle,   \* the next handle requestAnimationFrame returns
  frameQ,       \* handles of the running frame that are still to be called
  cancelCalls,  \* history: how often the cancel function of a lerp was called
  ticks,        \* history: the last two values delivered to the callback of a lerp
  lateTicks,    \* history: lerps that ticked after their cancel had returned
  race,         \* history: the value of the last setter call of a field
                \* (as a set) when it came while a transition to another value
                \* was in flight, the empty set otherwise
  mouse,        \* a Mouse dispatcher: its hash of listeners and its captureNode
  calls,        \* the callbacks the last dispatcher operation invoked, in order
  errors,       \* the failed assertions and exceptions of that operation
  op,           \* history: that operation, its arguments and the capture before it
  mice,         \* the Mouse dispatcher of every rotatable control
  ctl,          \* the rotatable controls: lastAngle, rotation, popState, scale
  out,          \* the application callbacks the last pointer event invoked
  perr,         \* the failed assertions of the handlers of that event
  samples,      \* history: the pointer-move samples of a drag in that event
  caged,        \* this.caged of the attitude indicator
  pev,          \* history: the last operation of the page with the controls,
                \* a pointer event or a disposal (NoEvent: not recorded)
  requested,    \* history: the value most recently requested of every field
  pinned,       \* history: the value of the last setBarometer call (as a set)
                \* when it was immediate, the empty set otherwise
  disposed,     \* this.disposed of the aircraft
  atDispose,    \* history: the lerps that existed when dispose() was called
  listeners,    \* this.listeners of an emitting object
  notified,     \* the listeners the last operation of that object invoked
  lerrors,      \* the failed assertions of that operation
  calc,         \* the last application of a pure function: name, inputs, result
  demo          \* an instrument in demo mode: the intervals it created, the
                \* interval timers of the browser, its lerps["demo"], disposed

animVars == <<now, framed, cur, lerps, anim, raf, nextHandle, frameQ,
              cancelCalls, ticks, lateTicks, race, requested>>
mouseVars == <<mouse, calls, errors, op>>
rotVars == <<mice, ctl, out, perr, samples, caged, pev>>
lifeVars == <<pinned, disposed, atDispose>>
emitVars == <<listeners, notified, lerrors>>
restVars == <<lifeVars, emitVars, calc, demo>>
vars == <<animVars, mouseVars, rotVars, restVars>>

\* the aircraft and its animations as one value, for the operators below
St == [cur |-> cur, lerps |-> lerps, anim |-> anim, raf |-> raf,
       nextHandle |-> nextHandle, cancelCalls |-> cancelCalls,
       ticks |-> ticks, lateTicks |-> lateTicks]

\* ------------------------------------------------ platform frame callbacks
\* window.requestAnimationFrame(timer of lerp id): a fresh handle
requestAnimationFrameReuse(S, id) ==
  LET handle == CHOOSE h \in 1..S.nextHandle :
                  /\ h \notin DOMAIN S.raf
                  /\ \A k \in 1..(h - 1) : k \in DOMAIN S.raf
  IN  [S EXCEPT !.raf = [h \in DOMAIN S.raf \cup {handle} |->
                           IF h = handle THEN id ELSE S.raf[h]],
                !.nextHandle = S.nextHandle + 1,
                !.anim[id].requestId = handle]

requestAnimationFrame(S, id) ==
  [S EXCEPT !.raf = [h \in DOMAIN S.raf \cup {S.nextHandle} |->
                       IF h = S.nextHandle THEN id ELSE S.raf[h]],
            !.nextHandle = S.nextHandle + 1,
            !.anim[id].requestId = S.nextHandle]

\* window.cancelAnimationFrame(handle): unknown handles are ignored
cancelAnimationFrame(S, handle) ==
  [S EXCEPT !.raf = [h \in DOMAIN S.raf \ {handle} |-> S.raf[h]]]

\* ------------------------------------------------------------------- lerp
\* Math.sin(k/16 * PI/2) in hundred-thousandths
SinTable == <<0, 9802, 19509, 29028, 38268, 47140, 55557, 63439, 70711, 77301,
              83147, 88192, 92388, 95694, 98079, 99518, 100000>>

\* normalized progress in hundred-thousandths: sin((delta / time) * (PI / 2))
\* when eased, delta / time otherwise
Normalized(delta, time, ease) ==
  IF ease THEN SinTable[((16 * delta) \div time) + 1]
  ELSE (100000 * delta) \div time

\* A value of an animated field is held as the computation that made it:
\* base is a number a caller passed, in the unit of the field, and via are
\* the lerp steps taken from it in order, each of them
\* value + normalized(delta, time, ease) * (to - value).  Values are equal
\* when they were made the same way.
Exact(n) == [base |-> n, via |-> <<>>]

\* the value the timer delivers at clock value t: to at the end of the lerp;
\* before it from + normalized * (to - from), which is from itself while
\* normalized is 0 (delta 0) or to - from is 0
LerpValueCos(l, t) ==
  IF t < l.startTime + l.time
  THEN IF l.from = Exact(l.to) THEN l.from
       ELSE IF t = l.startTime THEN Exact(l.to)
       ELSE [l.from EXCEPT !.via = Append(l.from.via,
               [to |-> l.to, delta |-> l.time - (t - l.startTime),
                time |-> l.time, ease |-> l.ease])]
  ELSE Exact(l.to)

LerpValue(l, t) ==
  IF t < l.startTime + l.time
  THEN IF l.from = Exact(l.to) \/ t = l.startTime THEN l.from
       ELSE [l.from EXCEPT !.via = Append(l.from.via,
               [to |-> l.to, delta |-> t - l.startTime,
                time |-> l.time, ease |-> l.ease])]
  ELSE Exact(l.to)

\* lerp(from, to, time, callback, ease): a new closure whose timer is
\* requested for the next frame; the callback writes field key; from is a
\* value, to a number
lerp(S, key, from, to, time, t) ==
  LET id == Len(S.anim) + 1
      l  == [key |-> key, from |-> from, to |-> to, time |-> time, ease |-> TRUE,
             startTime |-> t, requestId |-> 0]
      S1 == [S EXCEPT !.anim = Append(S.anim, l),
                      !.cancelCalls = Append(S.cancelCalls, 0),
                      !.ticks = Append(S.ticks, <<>>)]
  IN  requestAnimationFrame(S1, id)

\* the cancel function returned by lerp
LerpCancelNoop(S, id) ==
  [S EXCEPT !.cancelCalls[id] = S.cancelCalls[id] + 1]

LerpCancel(S, id) ==
  LET S1 == IF S.anim[id].requestId # 0
            THEN cancelAnimationFrame(S, S.anim[id].requestId)
            ELSE S
  IN  [S1 EXCEPT !.cancelCalls[id] = S.cancelCalls[id] + 1]

RECURSIVE CancelEach(_, _)
\* Object.values(this.lerps).forEach(f => f())
CancelEach(S, ids) ==
  IF ids = {} THEN S
  ELSE LET id == CHOOSE x \in ids : \A y \in ids : x <= y
       IN  CancelEach(LerpCancel(S, id), ids \ {id})

\* ----------------------------------------------------- keyed animation set
cancelLerpAll(S, key) ==
  [CancelEach(S, {S.lerps[k] : k \in DOMAIN S.lerps} \ {0}) EXCEPT
     !.lerps = [k \in DOMAIN S.lerps |-> 0]]

cancelLerp(S, key) ==
  IF S.lerps[key] # 0
  THEN [LerpCancel(S, S.lerps[key]) EXCEPT !.lerps[key] = 0]
  ELSE S

addLerpNoCancel(S, key, id) ==
  [S EXCEPT !.lerps[key] = id]

addLerp(S, key, id) ==
  [cancelLerp(S, key) EXCEPT !.lerps[key] = id]

\* ---------------------------------------------------------- field setters
\* setAirspeed(v), setRPM(v): a transition from the current value when
\* the value differs from the current value
setField(S, f, v, t) ==
  IF Exact(v) # S.cur[f]
  THEN LET S1 == lerp(S, f, S.cur[f], v, Duration(f), t)
       IN  addLerp(S1, f, Len(S1.anim))
  ELSE S

\* a setter call can start a lerp within the bounds of the model
CanSet(S, f, v, t) ==
  \/ Exact(v) = S.cur[f]
  \/ Len(S.anim) < MaxLerps /\ t <= MaxNow

\* ------------------------------------------------------------ lerp timer
\* history of the delivered values: the value before the last, and the last
Delivered(h, value) == IF h = <<>> THEN <<value>> ELSE <<Last(h), value>>

\* the timer of lerp id, called by the frame at clock value t: request the
\* next frame unless the end is reached, then deliver the value
timerNoFinal(S, id, t) ==
  LET l  == S.anim[id]
  IN  IF t < l.startTime + l.time
      THEN [requestAnimationFrame(S, id) EXCEPT
              !.cur[l.key] = LerpValue(l, t),
              !.ticks[id] = Delivered(S.ticks[id], LerpValue(l, t)),
              !.lateTicks = IF S.cancelCalls[id] > 0
                            THEN S.lateTicks \cup {id} ELSE S.lateTicks]
      ELSE [S EXCEPT !.anim[id].requestId = 0]

timer(S, id, t) ==
  LET l  == S.anim[id]
      S1 == IF t < l.startTime + l.time
            THEN requestAnimationFrame(S, id)
            ELSE [S EXCEPT !.anim[id].requestId = 0]
  IN  [S1 EXCEPT !.cur[l.key] = LerpValue(l, t),
                 !.ticks[id] = Delivered(S.ticks[id], LerpValue(l, t)),
                 !.lateTicks = IF S.cancelCalls[id] > 0
                               THEN S.lateTicks \cup {id} ELSE S.lateTicks]

\* ------------------------------------------------------- derived notions
\* lerp id of aircraft S has a timer call pending
LiveIn(S, id) == id <= Len(S.anim) /\ S.anim[id].requestId \in DOMAIN S.raf

\* the lerps of S with a pending timer call that write field f
ActiveIn(S, f) == {id \in 1..Len(S.anim) : LiveIn(S, id) /\ S.anim[id].key = f}

Live(id) == LiveIn(St, id)
ActiveOn(f) == ActiveIn(St, f)

\* history of a setter call setF(v) on aircraft S at clock value t: {v} when a
\* transition of f to another value is in flight and has not reached its end
\* at the call, {} otherwise
Races(S, f, v, t) ==
  IF \E id \in ActiveIn(S, f) :
       S.anim[id].to # v /\ t < S.anim[id].startTime + S.anim[id].time
  THEN {v} ELSE {}

\* --------------------------------------------------------------- actions
AnimInit ==
  /\ now = 0
  /\ framed = FALSE
  /\ cur = [f \in Fields |-> Exact(0)]
  /\ lerps = [f \in Fields |-> 0]
  /\ anim = <<>>
  /\ raf = <<>>
  /\ nextHandle = 1
  /\ frameQ = <<>>
  /\ cancelCalls = <<>>
  /\ ticks = <<>>
  /\ lateTicks = {}
  /\ race = [f \in Fields |-> {}]
  /\ requested = [f \in Fields |-> 0]

Install(S) ==
  /\ cur' = S.cur
  /\ lerps' = S.lerps
  /\ anim' = S.anim
  /\ raf' = S.raf
  /\ nextHandle' = S.nextHandle
  /\ cancelCalls' = S.cancelCalls
  /\ ticks' = S.ticks
  /\ lateTicks' = S.lateTicks

\* time passes, between frames
Tock ==
  /\ frameQ = <<>>
  /\ now < FarFuture
  /\ now' = IF now < MaxNow THEN Min(now + ClockStep, MaxNow) ELSE FarFuture
  /\ framed' = FALSE
  /\ UNCHANGED <<cur, lerps, anim, raf, nextHandle, frameQ,
                 cancelCalls, ticks, lateTicks, race, requested, mouseVars, rotVars, restVars>>

\* application code calls a setter of the aircraft, between frames
SetField ==
  /\ frameQ = <<>>
  /\ \E f \in Fields, v \in Values :
       /\ CanSet(St, f, v, now)
       /\ Install(setField(St, f, v, now))
       /\ race' = [race EXCEPT ![f] = Races(St, f, v, now)]
       /\ requested' = [requested EXCEPT ![f] = v]
  /\ UNCHANGED <<now, framed, frameQ, mouseVars, rotVars, restVars>>

\* the browser starts a frame: the callbacks requested so far will be called;
\* frames are further apart than the resolution of the clock
BeginFrame ==
  /\ frameQ = <<>>
  /\ DOMAIN raf # {}
  /\ ~framed \/ now = FarFuture
  /\ framed' = TRUE
  /\ frameQ' = SortedSeq(DOMAIN raf)
  /\ UNCHANGED <<now, cur, lerps, anim, raf, nextHandle, cancelCalls, ticks,
                 lateTicks, race, requested, mouseVars, rotVars, restVars>>

\* the frame skips a callback that was cancelled after the frame began
SkipCallback ==
  /\ frameQ # <<>>
  /\ Head(frameQ) \notin DOMAIN raf
  /\ frameQ' = Tail(frameQ)
  /\ UNCHANGED <<now, framed, cur, lerps, anim, raf, nextHandle,
                 cancelCalls, ticks, lateTicks, race, requested, mouseVars, rotVars, restVars>>

\* the frame calls the next callback, a lerp timer; the change listeners it
\* notifies do nothing to the aircraft
RunCallback ==
  /\ frameQ # <<>>
  /\ Head(frameQ) \in DOMAIN raf
  /\ raf[Head(frameQ)] > 0
  /\ LET h  == Head(frameQ)
         S0 == cancelAnimationFrame(St, h)
     IN  Install(timer(S0, raf[h], now))
  /\ frameQ' = Tail(frameQ)
  /\ UNCHANGED <<now, framed, race, requested, mouseVars, rotVars, restVars>>

\* the same, with a change listener that calls a setter of the aircraft
RunCallbackSet ==
  /\ frameQ # <<>>
  /\ Head(frameQ) \in DOMAIN raf
  /\ \E f \in Fields, v \in Values :
       LET h  == Head(frameQ)
           S0 == cancelAnimationFrame(St, h)
           S1 == timer(S0, raf[h], now)
       IN  /\ CanSet(S1, f, v, now)
           /\ Install(setField(S1, f, v, now))
           /\ race' = [race EXCEPT ![f] = Races(S1, f, v, now)]
           /\ requested' = [requested EXCEPT ![f] = v]
  /\ frameQ' = Tail(frameQ)
  /\ UNCHANGED <<now, framed, mouseVars, rotVars, restVars>>

AnimNext ==
  \/ Tock
  \/ SetField
  \/ BeginFrame
  \/ SkipCallback
  \/ RunCallback
  \/ RunCallbackSet

\* ---------------------------------------------------------- cancel handles
\* number of times the cancel function of one lerp is called
MaxCancels == 2

\* a caller that kept the cancel function of a lerp calls it again, or calls
\* it after the lerp has had its last tick, between frames
CancelAgain ==
  /\ frameQ = <<>>
  /\ \E id \in 1..Len(anim) :
       /\ cancelCalls[id] >= 1 \/ anim[id].requestId = 0
       /\ cancelCalls[id] < MaxCancels
       /\ Install(LerpCancel(St, id))
  /\ UNCHANGED <<now, framed, frameQ, race, requested, mouseVars, rotVars,
                 restVars>>

LerpNext ==
  \/ AnimNext
  \/ CancelAgain

\* ---------------------------------------------------------------- dispose
\* the dispose function the Airplane constructor adds
disposeHookForget(S) ==
  [S EXCEPT !.lerps = [k \in DOMAIN S.lerps |-> 0]]

disposeHook(S) ==
  [CancelEach(S, {S.lerps[k] : k \in DOMAIN S.lerps} \ {0}) EXCEPT
     !.lerps = [k \in DOMAIN S.lerps |-> 0]]

\* Disposable.dispose() of an aircraft whose dispose functions are those of
\* its constructor: a second call finds the list empty
dispose(S, wasDisposed) ==
  IF wasDisposed THEN S ELSE disposeHook(S)

\* application code disposes the aircraft, between frames
Dispose ==
  /\ frameQ = <<>>
  /\ Install(dispose(St, disposed))
  /\ disposed' = TRUE
  /\ atDispose' = IF disposed THEN atDispose ELSE 1..Len(anim)
  /\ UNCHANGED <<now, framed, frameQ, race, requested, mouseVars, rotVars,
                 pinned, emitVars, calc, demo>>

\* the frame calls a lerp timer, and a change listener it notifies disposes
\* the aircraft
RunCallbackDispose ==
  /\ frameQ # <<>>
  /\ Head(frameQ) \in DOMAIN raf
  /\ ~disposed
  /\ LET h  == Head(frameQ)
         S0 == cancelAnimationFrame(St, h)
     IN  Install(dispose(timer(S0, raf[h], now), disposed))
  /\ frameQ' = Tail(frameQ)
  /\ disposed' = TRUE
  /\ atDispose' = 1..Len(anim)
  /\ UNCHANGED <<now, framed, race, requested, mouseVars, rotVars,
                 pinned, emitVars, calc, demo>>

DisposeNext ==
  \/ AnimNext
  \/ Dispose
  \/ RunCallbackDispose

\* ------------------------------------------------------- change listeners
\* the callbacks an application adds as change listeners
ListenerFns == {"f", "g", "h"}
\* number of listeners an object holds
MaxListeners == 3

\* an emitter value E has the listeners of a Disposable and the listeners
\* invoked and assertions failed by the running call

\* Disposable.addListener(func): console.assert reports and goes on
addListener(E, func) ==
  [E EXCEPT !.lerrors = IF \E i \in 1..Len(E.listeners) : E.listeners[i] = func
                        THEN Append(E.lerrors, "listener already registered")
                        ELSE E.lerrors,
            !.listeners = Append(E.listeners, func)]

\* Disposable.removeListener(func)
removeListener(E, func) ==
  [E EXCEPT !.lerrors = IF \E i \in 1..Len(E.listeners) : E.listeners[i] = func
                        THEN E.lerrors
                        ELSE Append(E.lerrors, "listener is not registered"),
            !.listeners = SelectSeq(E.listeners, LAMBDA f : f # func)]

\* Disposable.removeAllListeners()
removeAllListeners(E) == [E EXCEPT !.listeners = <<>>]

\* Disposable.callListeners()
callListeners(E) == [E EXCEPT !.notified = E.notified \o E.listeners]

\* the emitter at the start of a call
Emitter == [listeners |-> listeners, notified |-> <<>>, lerrors |-> <<>>]

Emitted(E) ==
  /\ listeners' = E.listeners
  /\ notified' = E.notified
  /\ lerrors' = E.lerrors

AddListener ==
  \E func \in ListenerFns :
    /\ Len(listeners) < MaxListeners
    /\ Emitted(addListener(Emitter, func))
    /\ UNCHANGED <<animVars, mouseVars, rotVars, lifeVars, calc, demo>>

RemoveListener ==
  \E func \in ListenerFns :
    /\ Emitted(removeListener(Emitter, func))
    /\ UNCHANGED <<animVars, mouseVars, rotVars, lifeVars, calc, demo>>

RemoveAllListeners ==
  /\ Emitted(removeAllListeners(Emitter))
  /\ UNCHANGED <<animVars, mouseVars, rotVars, lifeVars, calc, demo>>

CallListeners ==
  /\ Emitted(callListeners(Emitter))
  /\ UNCHANGED <<animVars, mouseVars, rotVars, lifeVars, calc, demo>>

EmitNext ==
  \/ AddListener
  \/ RemoveListener
  \/ RemoveAllListeners
  \/ CallListeners

\* -------------------------------------------------------------- barometer
\* the standard barometer setting, in hundredths of an inch of mercury
STANDARD_BAROMETER == 2992
\* the settings a caller passes to setBarometer
BaroValues == {STANDARD_BAROMETER, 3000}

\* Airplane.setBarometer(inchesOfMercury, immediate) at clock value t
setBarometer(S, inchesOfMercury, immediate, t) ==
  IF immediate
  THEN [S EXCEPT !.cur["barometer"] = Exact(inchesOfMercury)]
  ELSE setField(S, "barometer", inchesOfMercury, t)

\* an aircraft, of which the barometer is modelled
BaroInit ==
  /\ now = 0
  /\ framed = FALSE
  /\ cur = [f \in {"barometer"} |-> Exact(STANDARD_BAROMETER)]
  /\ lerps = [f \in {"barometer"} |-> 0]
  /\ anim = <<>>
  /\ raf = <<>>
  /\ nextHandle = 1
  /\ frameQ = <<>>
  /\ cancelCalls = <<>>
  /\ ticks = <<>>
  /\ lateTicks = {}
  /\ race = [f \in Fields |-> {}]
  /\ requested = [f \in Fields |-> 0]

\* application code calls setBarometer, between frames: the altimeter's baro
\* button calls it with immediate true, a flight script with the default
SetBarometer ==
  /\ frameQ = <<>>
  /\ \E v \in BaroValues, immediate \in BOOLEAN :
       /\ immediate \/ CanSet(St, "barometer", v, now)
       /\ Install(setBarometer(St, v, immediate, now))
       /\ pinned' = IF immediate THEN {v} ELSE {}
  /\ UNCHANGED <<now, framed, frameQ, race, requested, mouseVars, rotVars,
                 disposed, atDispose, emitVars, calc, demo>>

BaroNext ==
  \/ SetBarometer
  \/ Tock
  \/ BeginFrame
  \/ RunCallback

\* -------------------------------------------------------------- demo mode
\* number of times demoStart is called in one behaviour
MaxDemos == 2

\* an instrument value M has the intervals its demoStart calls created, each
\* with the variable timer of its closure (0 once cancelled), whether the
\* frame callback of its leading edge is still requested, and the history of
\* its cancel function and of its callback; sys is the set of interval timers
\* the browser holds, lerp is this.lerps["demo"] (0: no entry)
NoDemo == [ivs |-> <<>>, sys |-> {}, lerp |-> 0, disposed |-> FALSE]

\* the browser's map holds the leading call of interval id as minus the id,
\* the timer of a lerp as the id of the lerp
LeadingCall(id) == 0 - id

\* window.requestAnimationFrame(callback) whose handle the caller drops
requestFrame(S, callback) ==
  [S EXCEPT !.raf = [h \in DOMAIN S.raf \cup {S.nextHandle} |->
                       IF h = S.nextHandle THEN callback ELSE S.raf[h]],
            !.nextHandle = S.nextHandle + 1]

\* interval(callback, milliseconds) of an instrument M whose aircraft and
\* browser are S: setInterval returns a fresh handle, and the leading call
\* is requested for the next frame; the result is the pair of both
interval(P) ==
  LET id == Len(P.M.ivs) + 1
  IN  [S |-> requestFrame(P.S, LeadingCall(id)),
       M |-> [P.M EXCEPT !.ivs = Append(P.M.ivs,
                                   [timer |-> id, lead |-> TRUE,
                                    cancelled |-> FALSE, invoked |-> FALSE,
                                    late |-> FALSE]),
                         !.sys = P.M.sys \cup {id}]]

\* the cancel function interval returns: clearInterval(timer); timer = 0
IntervalCancelKeep(M, id) ==
  [M EXCEPT !.sys = M.sys \ {M.ivs[id].timer},
            !.ivs[id].cancelled = TRUE]

IntervalCancel(M, id) ==
  [M EXCEPT !.sys = M.sys \ {M.ivs[id].timer},
            !.ivs[id].timer = 0,
            !.ivs[id].cancelled = TRUE]

\* Animated.cancelLerp("demo") of the instrument
cancelDemo(M) ==
  IF M.lerp # 0 THEN [IntervalCancel(M, M.lerp) EXCEPT !.lerp = 0] ELSE M

\* demoStart(): the interval is created, and its leading call requested,
\* before addLerp cancels the previous one
demoStart(P) ==
  LET P1 == interval(P)
  IN  [P1 EXCEPT !.M = [cancelDemo(P1.M) EXCEPT !.lerp = Len(P1.M.ivs)]]

\* demoStop()
demoStop(M) == cancelDemo(M)

\* Disposable.dispose() of the instrument: the dispose function of Animated
\* cancels all lerps; a second call finds the list of functions empty
disposeInstrument(M) ==
  IF M.disposed THEN M ELSE [cancelDemo(M) EXCEPT !.disposed = TRUE]

\* the callback of interval id is invoked
Invoked(M, id) ==
  [M EXCEPT !.ivs[id].invoked = TRUE,
            !.ivs[id].late = M.ivs[id].late \/ M.ivs[id].cancelled]

\* the page calls demoStart of the tachometer, between frames
DemoStart ==
  /\ frameQ = <<>>
  /\ Len(demo.ivs) < MaxDemos
  /\ \E P \in {demoStart([S |-> St, M |-> demo])} :
       /\ Install(P.S)
       /\ demo' = P.M
  /\ UNCHANGED <<now, framed, frameQ, race, requested, mouseVars, rotVars,
                 lifeVars, emitVars, calc>>

DemoStop ==
  /\ frameQ = <<>>
  /\ demo' = demoStop(demo)
  /\ UNCHANGED <<animVars, mouseVars, rotVars, lifeVars, emitVars, calc>>

DisposeInstrument ==
  /\ frameQ = <<>>
  /\ demo' = disposeInstrument(demo)
  /\ UNCHANGED <<animVars, mouseVars, rotVars, lifeVars, emitVars, calc>>

\* the frame calls the next callback, the function interval requested: the
\* callback of the demo, which sets the rpm of the aircraft, unless the
\* interval was cancelled
LeadingEdge ==
  /\ frameQ # <<>>
  /\ Head(frameQ) \in DOMAIN raf
  /\ raf[Head(frameQ)] < 0
  /\ LET id == 0 - raf[Head(frameQ)]
         S0 == cancelAnimationFrame(St, Head(frameQ))
     IN  IF demo.ivs[id].timer # 0
         THEN \E v \in Values :
                /\ CanSet(S0, "rpm", v, now)
                /\ Install(setField(S0, "rpm", v, now))
                /\ requested' = [requested EXCEPT !["rpm"] = v]
                /\ demo' = [Invoked(demo, id) EXCEPT !.ivs[id].lead = FALSE]
         ELSE /\ Install(S0)
              /\ requested' = requested
              /\ demo' = [demo EXCEPT !.ivs[id].lead = FALSE]
  /\ frameQ' = Tail(frameQ)
  /\ UNCHANGED <<now, framed, race, mouseVars, rotVars, lifeVars,
                 emitVars, calc>>

\* the browser fires an interval timer it holds: the callback of the demo
IntervalFire ==
  /\ frameQ = <<>>
  /\ \E id \in 1..Len(demo.ivs), v \in Values :
       /\ id \in demo.sys
       /\ CanSet(St, "rpm", v, now)
       /\ Install(setField(St, "rpm", v, now))
       /\ requested' = [requested EXCEPT !["rpm"] = v]
       /\ demo' = Invoked(demo, id)
  /\ UNCHANGED <<now, framed, frameQ, race, mouseVars, rotVars, lifeVars,
                 emitVars, calc>>

DemoNext ==
  \/ DemoStart
  \/ DemoStop
  \/ DisposeInstrument
  \/ IntervalFire
  \/ Tock
  \/ BeginFrame
  \/ SkipCallback
  \/ RunCallback
  \/ LeadingEdge

\* ------------------------------------------------------------ DOM, events
\* "no node": a captureNode of null
NoNode == "none"
\* "no listener": what findNode returns when it finds nothing
NoEar == [node |-> NoNode, callback |-> "none", includeDescendants |-> FALSE]

\* the document: two groups, the shapes inside them, and the background
Parent(n) ==
  CASE n = "K1c" -> "K1"
    [] n = "K2c" -> "K2"
    [] n \in {"K1", "K2", "bg"} -> "doc"
    [] OTHER -> NoNode

RECURSIVE IsAncestor(_, _)
\* node a is a proper ancestor of node n in the document
IsAncestor(a, n) ==
  IF Parent(n) = NoNode THEN FALSE
  ELSE Parent(n) = a \/ IsAncestor(a, Parent(n))

\* the nodes listeners are registered for, and the nodes events target
RegNodes == {"K1", "K2"}
Targets == {"K1", "K1c", "K2"}
\* the listener functions of the application
Callbacks == {"f", "g"}
\* the registrations the application makes: listeners of a native event with
\* either value of includeDescendants, listeners of the synthetic events
\* with its default
RegChoices ==
  [event : {"mousemove"}, node : RegNodes, callback : Callbacks,
   includeDescendants : BOOLEAN]
  \cup [event : {"setCapture", "releaseCapture"}, node : RegNodes,
        callback : {"f"}, includeDescendants : {TRUE}]
\* the native events that are dispatched; nothing listens to mousedown
Dispatched == {"mousemove", "mousedown"}
\* number of registrations a dispatcher holds
MaxRegs == 2

\* ------------------------------------------------------------------ Mouse
\* a dispatcher value D has the fields hash and captureNode of a Mouse and
\* the callbacks invoked and the errors signalled so far by the running call
Invoke(D, event, ear, capturing) ==
  [D EXCEPT !.calls = Append(D.calls,
     [event |-> event, node |-> ear.node, callback |-> ear.callback,
      capturing |-> capturing])]

\* this.hash[event] is an array
Has(D, event) == event \in DOMAIN D.hash

\* Mouse.contains(ancestor, descendant): bit 8 of
\* ancestor.compareDocumentPosition(descendant), set when the second node
\* contains the first
containsSwapped(ancestor, descendant) == IsAncestor(ancestor, descendant)

contains(ancestor, descendant) == IsAncestor(descendant, ancestor)

\* Mouse.findNode(eventName, node): the first listener of the event for node
findNode(D, eventName, node) ==
  IF Has(D, eventName)
       /\ \E i \in 1..Len(D.hash[eventName]) : D.hash[eventName][i].node = node
  THEN LET i == CHOOSE j \in 1..Len(D.hash[eventName]) :
                  /\ D.hash[eventName][j].node = node
                  /\ \A k \in 1..(j - 1) : D.hash[eventName][k].node # node
       IN  D.hash[eventName][i]
  ELSE NoEar

\* Mouse.releaseCapture()
releaseCaptureKeep(D) ==
  IF D.captureNode # NoNode
  THEN LET record == findNode(D, "releaseCapture", D.captureNode)
       IN  IF record # NoEar THEN Invoke(D, "releaseCapture", record, FALSE) ELSE D
  ELSE D

releaseCapture(D) ==
  IF D.captureNode # NoNode
  THEN LET record == findNode(D, "releaseCapture", D.captureNode)
           D1 == IF record # NoEar
                 THEN Invoke(D, "releaseCapture", record, FALSE) ELSE D
       IN  [D1 EXCEPT !.captureNode = NoNode]
  ELSE D

\* Mouse.setCapture(node)
setCaptureNoRelease(D, node) ==
  LET D1 == [D EXCEPT !.captureNode = node]
      record == findNode(D1, "setCapture", node)
  IN  IF record # NoEar THEN Invoke(D1, "setCapture", record, FALSE) ELSE D1

setCapture(D, node) ==
  LET D1 == [releaseCapture(D) EXCEPT !.captureNode = node]
      record == findNode(D1, "setCapture", node)
  IN  IF record # NoEar THEN Invoke(D1, "setCapture", record, FALSE) ELSE D1

\* Mouse.register(event, node, callback, includeDescendants)
register(D, event, node, callback, includeDescendants) ==
  LET ear == [node |-> node, callback |-> callback,
              includeDescendants |-> includeDescendants]
  IN  [D EXCEPT !.hash = [e \in DOMAIN D.hash \cup {event} |->
                            IF e = event
                            THEN (IF Has(D, event) THEN Append(D.hash[event], ear)
                                                   ELSE <<ear>>)
                            ELSE D.hash[e]]]

\* array.splice(index, 1), the index counted from 1
Splice(arr, index) ==
  [i \in 1..(Len(arr) - 1) |-> IF i < index THEN arr[i] ELSE arr[i + 1]]

RECURSIVE UnregisterEachKeep(_, _, _, _, _, _)
UnregisterEachKeep(D, event, ear, index, length, removed) ==
  IF index > length
  THEN [D |-> D, removed |-> removed]
  ELSE IF index > Len(D.hash[event])
  THEN UnregisterEachKeep(D, event, ear, index + 1, length, removed)
  ELSE IF D.hash[event][index] = ear
  THEN UnregisterEachKeep([D EXCEPT !.hash[event] = Splice(D.hash[event], index)],
                          event, ear, index + 1, length, removed + 1)
  ELSE UnregisterEachKeep(D, event, ear, index + 1, length, removed)

RECURSIVE UnregisterEach(_, _, _, _, _, _)
\* the forEach of Mouse.unregister from index (counted from 1) to the length
\* the array had when the loop began; an index the array no longer has is
\* not visited.  The result is the dispatcher and the count of removals
UnregisterEach(D, event, ear, index, length, removed) ==
  IF index > length
  THEN [D |-> D, removed |-> removed]
  ELSE IF index > Len(D.hash[event])
  THEN UnregisterEach(D, event, ear, index + 1, length, removed)
  ELSE LET record == D.hash[event][index]
       IN  IF record = ear
           THEN LET D1 == [D EXCEPT !.hash[event] = Splice(D.hash[event], index)]
                    D2 == IF record.node = D1.captureNode
                          THEN releaseCapture(D1) ELSE D1
                IN  UnregisterEach(D2, event, ear, index + 1, length, removed + 1)
           ELSE UnregisterEach(D, event, ear, index + 1, length, removed)

\* Mouse.unregister(event, node, callback, includeDescendants): console.assert
\* reports and goes on; forEach of an undefined array throws
unregister(D, event, node, callback, includeDescendants) ==
  LET ear == [node |-> node, callback |-> callback,
              includeDescendants |-> includeDescendants]
  IN  IF ~Has(D, event)
      THEN [D EXCEPT !.errors = D.errors \o
              <<"nothing registered for this event", "TypeError">>]
      ELSE LET r == UnregisterEach(D, event, ear, 1, Len(D.hash[event]), 0)
           IN  IF ~(r.removed # 1)   \* console.assert(removed !== 1) fails
               THEN [r.D EXCEPT !.errors = r.D.errors \o
                       <<"unregister did not match exactly one record">>]
               ELSE r.D

RECURSIVE HandleEach(_, _, _, _)
\* the forEach of Mouse.handleEvent from index on
HandleEach(D, e, ears, index) ==
  IF index > Len(ears) THEN D
  ELSE LET ear == ears[index]
           D1 == IF D.captureNode # NoNode
                 THEN Invoke(D, e.type, ear, TRUE)
                 ELSE IF \/ e.target = ear.node
                         \/ ear.includeDescendants /\ contains(e.target, ear.node)
                      THEN Invoke(D, e.type, ear, FALSE)
                      ELSE D
       IN  HandleEach(D1, e, ears, index + 1)

\* Mouse.handleEvent(e)
handleEvent(D, e) ==
  IF Has(D, e.type) THEN HandleEach(D, e, D.hash[e.type], 1) ELSE D

\* ------------------------------------------------- dispatcher operations
\* the dispatcher at the start of a call
Dsp == [hash |-> mouse.hash, captureNode |-> mouse.captureNode,
        calls |-> <<>>, errors |-> <<>>]

RECURSIVE CountRegs(_, _)
\* number of registrations the dispatcher holds
CountRegs(h, events) ==
  IF events = {} THEN 0
  ELSE LET e == CHOOSE x \in events : TRUE
       IN  Len(h[e]) + CountRegs(h, events \ {e})

\* history: number of registrations that match all four fields
Matching(h, event, node, callback, includeDescendants) ==
  IF event \in DOMAIN h
  THEN Cardinality({i \in 1..Len(h[event]) :
         h[event][i] = [node |-> node, callback |-> callback,
                        includeDescendants |-> includeDescendants]})
  ELSE 0

Done(D, name, event, node, callback, includeDescendants) ==
  /\ mouse' = [hash |-> D.hash, captureNode |-> D.captureNode]
  /\ calls' = D.calls
  /\ errors' = D.errors
  /\ op' = [name |-> name, event |-> event, node |-> node,
            callback |-> callback, includeDescendants |-> includeDescendants,
            before |-> mouse.captureNode,
            matches |-> IF name = "unregister"
                        THEN Matching(mouse.hash, event, node, callback,
                                      includeDescendants)
                        ELSE 0]

MouseInit ==
  /\ mouse = [hash |-> <<>>, captureNode |-> NoNode]
  /\ calls = <<>>
  /\ errors = <<>>
  /\ op = [name |-> "new", event |-> "none", node |-> NoNode,
           callback |-> "none", includeDescendants |-> FALSE, before |-> NoNode,
           matches |-> 0]

Register ==
  \E r \in RegChoices :
    /\ CountRegs(mouse.hash, DOMAIN mouse.hash) < MaxRegs
    /\ Done(register(Dsp, r.event, r.node, r.callback, r.includeDescendants),
            "register", r.event, r.node, r.callback, r.includeDescendants)
    /\ UNCHANGED <<animVars, rotVars, restVars>>

Unregister ==
  \E r \in RegChoices :
    /\ Done(unregister(Dsp, r.event, r.node, r.callback, r.includeDescendants),
            "unregister", r.event, r.node, r.callback, r.includeDescendants)
    /\ UNCHANGED <<animVars, rotVars, restVars>>

SetCapture ==
  \E n \in RegNodes :
    /\ Done(setCapture(Dsp, n), "setCapture", "none", n, "none", FALSE)
    /\ UNCHANGED <<animVars, rotVars, restVars>>

ReleaseCapture ==
  /\ Done(releaseCapture(Dsp), "releaseCapture", "none", NoNode, "none", FALSE)
  /\ UNCHANGED <<animVars, rotVars, restVars>>

\* the document dispatches a native event to the handleEvent of the dispatcher
HandleEvent ==
  \E type \in Dispatched, target \in Targets :
    /\ Done(handleEvent(Dsp, [type |-> type, target |-> target]),
            "handleEvent", type, target, "none", FALSE)
    /\ UNCHANGED <<animVars, rotVars, restVars>>

MouseNext ==
  \/ Register
  \/ Unregister
  \/ SetCapture
  \/ ReleaseCapture
  \/ HandleEvent

\* ------------------------------------------------------ rotatable control
\* anglular changes above this delta are ignored
JITTER_THRESHOLD == 20
\* scale when pop'ed out, in hundredths
POP_SCALE == 125
\* duration of the scale transition (ms)
ScaleTime == 200
\* duration of the transition of the cage multiplier (ms)
CageTime == 2000
\* the accumulated rotation of a control stays within this many degrees
MaxRotation == 10
\* number of times the controls toggle their popout in one behaviour
MaxToggles == 1
\* this.lastAngle before the first mousedown
NoAngle == 0 - 1
\* the operations of the page are not recorded
NoEvent == [type |-> "none", target |-> "none", dir |-> <<0, 0>>]

\* the buttons of the attitude indicator, in the order they are constructed:
\* 1 is the vertical adjust button, 2 the cage button
Controls == {1, 2}
\* this.group.node, and a shape inside it
Node(r) == IF r = 1 THEN "K1" ELSE "K2"
\* the options of the controls; gear in hundredths
HasRotationCallback(r) == r = 1
HasClickCallback(r) == r = 2
Popout(r) == r = 2
Gear(r) == IF r = 1 THEN 5 ELSE 100
\* the key of the scale animation in the lerps of control r, and of its
\* displayScale
ScaleKey(r) == <<r, "scale">>
\* the key of the cage animation in the lerps of the attitude indicator, and
\* of its cageMultiplier, in hundredths
CageKey == <<0, "caged">>

\* The positions of the pointer on the page: the node under it, and its
\* direction as seen from the center of every control, which is
\* Math.atan2(local.y - center.y, local.x - center.x) * 180 / PI, in
\* (-180, 180], of local = eventToNode(the group of the control, e), the
\* pointer as measured from the bounding box of the group.  The box is that
\* of the outer circle of the control (radius 2 * radius around center)
\* under the transform updateTransform sets, so its corner is at
\* position - 2 * radius * displayScale and the directions are those from
\* the point of the page at that corner + center.  The vertical adjust
\* button is positioned at POC(CENTER, OUTER_RADIUS, 90) = (200, 348): its
\* box is at (140, 288).  The cage button is positioned at
\* POC(CENTER, R, 45) = (341.42, 341.42): its box is at (281.42, 281.42)
\* while it is displayed at scale 1 and at (266.42, 266.42) at POP_SCALE.
\* The shapes of a control are within 2 * radius * displayScale of its
\* position.  So the directions of a point of the page, and the node under
\* it, depend on the display scale of the controls: scale has the display
\* scale of every control, in hundredths, at which the page has a point with
\* these two directions that is on a shape of control 1 (K1c), on a shape of
\* control 2 (K2c) or away from both and from their boxes (bg).  The points
\* are given for the scales a control rests at, 1 and POP_SCALE
PointerPositions ==
  {[scale |-> <<100, 100>>, target |-> "K1c", dir |-> <<0 - 10, 0 - 179>>],
   [scale |-> <<100, 100>>, target |-> "K1c", dir |-> <<0, 176>>],
   [scale |-> <<100, 100>>, target |-> "K2c", dir |-> <<0, 45>>],
   [scale |-> <<100, 100>>, target |-> "bg", dir |-> <<20, 40>>],
   [scale |-> <<100, POP_SCALE>>, target |-> "K1c", dir |-> <<0, 165>>],
   [scale |-> <<100, POP_SCALE>>, target |-> "K1c", dir |-> <<10, 165>>],
   [scale |-> <<100, POP_SCALE>>, target |-> "K2c", dir |-> <<0, 45>>],
   [scale |-> <<100, POP_SCALE>>, target |-> "bg", dir |-> <<20, 41>>]}

Abs(x) == IF x < 0 THEN 0 - x ELSE x

\* angleFrom(center, position), of the direction a of the position
angleFrom(a) == IF a < 0 THEN 180 + (180 + a) ELSE a

RECURSIVE WhileBelow(_)
WhileBelow(difference) ==
  IF difference < 0 - 180 THEN WhileBelow(difference + 360) ELSE difference

RECURSIVE WhileAbove(_)
WhileAbove(difference) ==
  IF difference > 180 THEN WhileAbove(difference - 360) ELSE difference

\* angularDelta(firstAngle, secondAngle)
angularDeltaRaw(firstAngle, secondAngle) ==
  secondAngle - firstAngle

angularDelta(firstAngle, secondAngle) ==
  WhileAbove(WhileBelow(secondAngle - firstAngle))

\* A world value W has the dispatchers and the fields of the controls, the
\* application callbacks and failed assertions of the running event, the
\* caged flag of the attitude indicator, and the animations S

\* Rotatable.setPopScale(s) at clock value t
setPopScale(W, r, s, t) ==
  LET S1 == lerp(W.S, ScaleKey(r), W.S.cur[ScaleKey(r)], s, ScaleTime, t)
  IN  [W EXCEPT !.ctl[r].scale = s,
                !.S = addLerp(S1, ScaleKey(r), Len(S1.anim))]

\* Rotatable.togglePopout()
togglePopoutNoScale(W, r, t) ==
  [W EXCEPT !.ctl[r].popState = ~W.ctl[r].popState]

togglePopout(W, r, t) ==
  LET W1 == [W EXCEPT !.ctl[r].popState = ~W.ctl[r].popState]
  IN  setPopScale(W1, r, IF W1.ctl[r].popState THEN POP_SCALE ELSE 100, t)

\* Rotatable.onMouseDown(e, local)
onMouseDownNoAngle(W, r, local) ==
  [W EXCEPT !.mice[r] = setCapture(W.mice[r], Node(r))]

onMouseDown(W, r, local) ==
  [W EXCEPT !.ctl[r].lastAngle = angleFrom(local),
            !.mice[r] = setCapture(W.mice[r], Node(r))]

\* AttitudeIndicatorAnalog.onCageToggle(), the click callback of the cage
\* button, at clock value t
onCageToggle(W, t) ==
  LET W1 == [W EXCEPT !.caged = ~W.caged]
      S1 == lerp(W1.S, CageKey, W1.S.cur[CageKey],
                 IF W1.caged THEN 0 ELSE 100, CageTime, t)
  IN  [W1 EXCEPT !.S = addLerp(S1, CageKey, Len(S1.anim))]

\* Rotatable.onMouseUp(e, local, capture)
onMouseUpKeep(W, r, capture, t) ==
  LET W1 == IF capture /\ HasClickCallback(r)
            THEN onCageToggle([W EXCEPT !.out = Append(W.out,
                    [control |-> r, name |-> "click", value |-> 0])], t)
            ELSE W
  IN  IF Popout(r) THEN togglePopout(W1, r, t) ELSE W1

onMouseUp(W, r, capture, t) ==
  LET W1 == IF capture /\ HasClickCallback(r)
            THEN onCageToggle([W EXCEPT !.out = Append(W.out,
                    [control |-> r, name |-> "click", value |-> 0])], t)
            ELSE W
      W2 == [W1 EXCEPT !.mice[r] = releaseCapture(W1.mice[r])]
  IN  IF Popout(r) THEN togglePopout(W2, r, t) ELSE W2

\* Rotatable.onMouseMove(e, local, capture); the callback gets delta * gear
\* in hundredths; an undefined lastAngle fails the assertion and makes delta
\* NaN, which is not below the threshold
onMouseMove(W, r, local, capture) ==
  IF capture /\ HasRotationCallback(r)
  THEN LET known == W.ctl[r].lastAngle # NoAngle
           angle == angleFrom(local)
           delta == angularDelta(W.ctl[r].lastAngle, angle)
           W1 == [W EXCEPT !.perr = IF known THEN W.perr
                                    ELSE Append(W.perr, "lastAngle must be set"),
                           !.ctl[r].lastAngle = angle,
                           !.samples = Append(W.samples,
                             [control |-> r, lastAngle |-> W.ctl[r].lastAngle,
                              rotation |-> W.ctl[r].rotation,
                              delta |-> IF known THEN delta ELSE 0])]
       IN  IF known /\ Abs(delta) < JITTER_THRESHOLD
           THEN [W1 EXCEPT !.out = Append(W1.out,
                             [control |-> r, name |-> "rotation",
                              value |-> delta * Gear(r)]),
                           !.ctl[r].rotation = W1.ctl[r].rotation + delta]
           ELSE W1
  ELSE W

\* the listener of control r that a dispatcher call names; local is
\* eventToNode(its node, e), of which the handlers take the direction
Listener(W, r, call, e, t) ==
  CASE call.callback = "onMouseDown" -> onMouseDown(W, r, e.dir[r])
    [] call.callback = "onMouseUp" -> onMouseUp(W, r, call.capturing, t)
    [] call.callback = "onMouseMove" -> onMouseMove(W, r, e.dir[r], call.capturing)
    [] OTHER -> W

RECURSIVE ListenEach(_, _, _, _, _, _)
\* the listeners the dispatcher of control r invokes for event e, from index on
ListenEach(W, r, invoked, index, e, t) ==
  IF index > Len(invoked) THEN W
  ELSE ListenEach(Listener(W, r, invoked[index], e, t), r, invoked, index + 1, e, t)

\* the handleEvent of the dispatcher of control r, as the document calls it
Deliver(W, r, e, t) ==
  LET D == handleEvent([W.mice[r] EXCEPT !.calls = <<>>, !.errors = <<>>], e)
  IN  ListenEach([W EXCEPT !.mice[r] = D], r, D.calls, 1, e, t)

RECURSIVE DeliverAll(_, _, _, _)
\* the document calls its listeners in the order they were added
DeliverAll(W, r, e, t) ==
  IF r \notin Controls THEN W
  ELSE DeliverAll(Deliver(W, r, e, t), r + 1, e, t)

\* new Rotatable(options) at clock value t: renderImmutable
Construct(W, r, t) ==
  LET D0 == [hash |-> <<>>, captureNode |-> NoNode, calls |-> <<>>,
             errors |-> <<>>]
      D1 == register(D0, "mousemove", Node(r), "onMouseMove", TRUE)
      D2 == register(D1, "mousedown", Node(r), "onMouseDown", TRUE)
      D3 == register(D2, "mouseup", Node(r), "onMouseUp", TRUE)
      W1 == [W EXCEPT !.mice[r] = D3,
                      !.ctl[r] = [lastAngle |-> NoAngle, rotation |-> 0,
                                  popState |-> FALSE, scale |-> 100,
                                  disposed |-> FALSE],
                      !.S.cur[ScaleKey(r)] = Exact(100)]
  IN  setPopScale(W1, r, 100, t)

\* the keys of the scale animations
ScaleKeys == {ScaleKey(c) : c \in Controls}

\* the attitude indicator before its controls are constructed: not caged,
\* cageMultiplier 1
NoWorld ==
  [mice |-> [r \in Controls |-> <<>>],
   ctl  |-> [r \in Controls |-> <<>>],
   out  |-> <<>>,
   perr |-> <<>>,
   samples |-> <<>>,
   caged |-> FALSE,
   S    |-> [cur |-> [k \in ScaleKeys \cup {CageKey} |->
                        IF k = CageKey THEN Exact(100) ELSE Exact(0)],
             lerps |-> [k \in ScaleKeys \cup {CageKey} |-> 0],
             anim |-> <<>>, raf |-> <<>>, nextHandle |-> 1,
             cancelCalls |-> <<>>, ticks |-> <<>>, lateTicks |-> {}]]

\* the world at the start of an event
World == [mice |-> mice, ctl |-> ctl, out |-> <<>>, perr |-> <<>>,
          samples |-> <<>>, caged |-> caged, S |-> St]

InstallWorld(W) ==
  /\ mice' = W.mice
  /\ ctl' = W.ctl
  /\ out' = W.out
  /\ perr' = W.perr
  /\ samples' = W.samples
  /\ caged' = W.caged
  /\ Install(W.S)

\* the scale animations created so far
ScaleLerps(S) == {id \in 1..Len(S.anim) : S.anim[id].key \in ScaleKeys}

\* the event stays within the bounds of the model
InBounds(W, t) ==
  /\ \A r \in Controls : Abs(W.ctl[r].rotation) <= MaxRotation
  /\ Cardinality(ScaleLerps(W.S)) <= Cardinality(Controls) + MaxToggles
  /\ Len(W.S.anim) > Len(anim) => t <= MaxNow

\* the page, no control constructed
NoControls ==
  /\ mice = <<>>
  /\ ctl = <<>>
  /\ out = <<>>
  /\ perr = <<>>
  /\ samples = <<>>
  /\ caged = FALSE
  /\ pev = NoEvent

\* nothing disposed
LifeInit ==
  /\ pinned = {}
  /\ disposed = FALSE
  /\ atDispose = {}

\* no listener added
EmitInit ==
  /\ listeners = <<>>
  /\ notified = <<>>
  /\ lerrors = <<>>

\* nothing disposed, no listener added, no function to apply
RestInit ==
  /\ LifeInit
  /\ EmitInit
  /\ calc = [name |-> "none", a |-> 0, b |-> 0, result |-> 0]
  /\ demo = NoDemo

\* the attitude indicator has constructed its buttons
Built ==
  LET W == Construct(Construct(NoWorld, 1, 0), 2, 0)
  IN  /\ MouseInit
      /\ now = 0
      /\ framed = FALSE
      /\ frameQ = <<>>
      /\ race = [f \in Fields |-> {}]
      /\ requested = [f \in Fields |-> 0]
      /\ RestInit
      /\ cur = W.S.cur
      /\ lerps = W.S.lerps
      /\ anim = W.S.anim
      /\ raf = W.S.raf
      /\ nextHandle = W.S.nextHandle
      /\ cancelCalls = W.S.cancelCalls
      /\ ticks = W.S.ticks
      /\ lateTicks = W.S.lateTicks
      /\ mice = W.mice
      /\ ctl = W.ctl
      /\ out = W.out
      /\ perr = W.perr
      /\ samples = W.samples
      /\ caged = W.caged

\* the page with the buttons, its operations not recorded
RotInit ==
  /\ Built
  /\ pev = NoEvent

\* the same, its operations recorded from the load of the page on
DragInit ==
  /\ Built
  /\ pev = [type |-> "load", target |-> "bg", dir |-> <<0, 0>>]

\* the browser dispatches a pointer event of the type to the document, between
\* frames, with the pointer at a position of the page as the controls are
\* displayed
Pointer(type) ==
  \E p \in PointerPositions :
    /\ \A r \in Controls : cur[ScaleKey(r)] = Exact(p.scale[r])
    /\ \E W \in {DeliverAll(World, 1, [type |-> type, target |-> p.target,
                                        dir |-> p.dir], now)} :
         /\ InBounds(W, now)
         /\ InstallWorld(W)
         /\ pev' = IF pev = NoEvent THEN NoEvent
                   ELSE [type |-> type, target |-> p.target, dir |-> p.dir]
         /\ UNCHANGED <<now, framed, frameQ, race, requested, mouseVars,
                        restVars>>

MouseDown ==
  /\ frameQ = <<>>
  /\ Pointer("mousedown")

MouseMove ==
  /\ frameQ = <<>>
  /\ Pointer("mousemove")

MouseUp ==
  /\ frameQ = <<>>
  /\ Pointer("mouseup")

RotNext ==
  \/ MouseDown
  \/ MouseMove
  \/ MouseUp
  \/ Tock
  \/ BeginFrame
  \/ RunCallback

\* number of times togglePopout is called in one behaviour
MaxPops == 2

\* togglePopout() of a control that pops out is called, between frames
TogglePopout ==
  /\ frameQ = <<>>
  /\ now <= MaxNow
  /\ Cardinality(ScaleLerps(St)) < Cardinality(Controls) + MaxPops
  /\ \E r \in Controls :
       /\ Popout(r)
       /\ InstallWorld(togglePopout(World, r, now))
  /\ UNCHANGED <<now, framed, frameQ, race, requested, pev, mouseVars,
                 restVars>>

\* the pop-out of the controls and the frames of their scale animations
PopNext ==
  \/ TogglePopout
  \/ Tock
  \/ BeginFrame
  \/ RunCallback

\* Animated.cancelAllLerps() of an object whose lerps have the keys
cancelAllLerps(S, keys) ==
  [CancelEach(S, {S.lerps[k] : k \in keys} \ {0}) EXCEPT
     !.lerps = [k \in DOMAIN S.lerps |-> IF k \in keys THEN 0 ELSE S.lerps[k]]]

\* Disposable.dispose() of control r, whose dispose functions are those of
\* its constructors: the one Animated adds; a second call finds the list
\* empty
disposeControl(W, r) ==
  LET W1 == [W EXCEPT !.perr = IF W.ctl[r].disposed
                                THEN Append(W.perr, "already disposed")
                                ELSE W.perr,
                      !.ctl[r].disposed = TRUE]
  IN  IF W.ctl[r].disposed THEN W1
      ELSE [W1 EXCEPT !.S = cancelAllLerps(W1.S, {ScaleKey(r)})]

\* application code disposes a control, between frames
DisposeControl ==
  /\ frameQ = <<>>
  /\ \E r \in Controls :
       /\ InstallWorld(disposeControl(World, r))
       /\ pev' = IF pev = NoEvent THEN NoEvent
                 ELSE [type |-> "dispose", target |-> Node(r),
                       dir |-> <<0, 0>>]
  /\ UNCHANGED <<now, framed, frameQ, race, requested, mouseVars, restVars>>

\* the pointer and the frames of the animations of the controls
DragNext ==
  \/ MouseDown
  \/ MouseMove
  \/ MouseUp
  \/ Tock
  \/ BeginFrame
  \/ RunCallback

\* the pointer and the disposal of the controls
DisposeCtlNext ==
  \/ MouseDown
  \/ MouseMove
  \/ MouseUp
  \/ DisposeControl

\* --------------------------------------------------------- angle helpers
\* first angles are taken at this distance from each other
AngleStep == 10
\* angles passed to the conversions are within this many degrees of zero
MaxAngle == 720

\* the first angles of angularDelta
GridAngles == {a \in 0..359 : a % AngleStep = 0}
\* the second angles for a first angle a: every angle of [0, 360), and every
\* angle within half a turn of a
SecondAngles(a) == (0..359) \cup {a + d : d \in (0 - 180)..180}

\* the remainder operator of the language: the sign of the dividend
Rem(x, n) == IF x >= 0 THEN x % n ELSE 0 - ((0 - x) % n)

\* C2D(angle): clock format to regular angle
C2D(angle) == Rem(270 + angle, 360)

\* D2C(angle): regular angle to clock format
D2C(angle) == Rem(angle - 90, 360)

\* signedDegreesToPositive360(vIn)
signedDegreesToPositive360(vIn) ==
  LET vOut == IF vIn < 0 THEN 360 + vIn ELSE vIn
  IN  Rem(vOut, 360)

\* the arguments a caller has for a function of two angles, or of one
Inputs ==
  UNION {{[name |-> "input", a |-> a, b |-> b, result |-> 0] :
            b \in SecondAngles(a)} : a \in GridAngles}
  \cup {[name |-> "input", a |-> a, b |-> 0, result |-> 0] :
           a \in (0 - MaxAngle)..MaxAngle}

\* a caller applies a function to its arguments
Applied(name, result) ==
  /\ calc' = [calc EXCEPT !.name = name, !.result = result]
  /\ UNCHANGED <<animVars, mouseVars, rotVars, lifeVars, emitVars, demo>>

ApplyAngularDelta ==
  /\ calc.name = "input"
  /\ calc.a \in GridAngles
  /\ calc.b \in SecondAngles(calc.a)
  /\ Applied("angularDelta", angularDelta(calc.a, calc.b))

ApplyC2D ==
  /\ calc.name = "input"
  /\ calc.b = 0
  /\ Applied("C2D", C2D(calc.a))

ApplyD2C ==
  /\ calc.name = "input"
  /\ calc.b = 0
  /\ Applied("D2C", D2C(calc.a))

ApplySignedDegrees ==
  /\ calc.name = "input"
  /\ calc.b = 0
  /\ Applied("signedDegreesToPositive360", signedDegreesToPositive360(calc.a))

\* a caller converts an angle and converts the result back
ApplyD2CofC2D ==
  /\ calc.name = "input"
  /\ calc.b = 0
  /\ Applied("D2C(C2D)", D2C(C2D(calc.a)))

ApplyC2DofD2C ==
  /\ calc.name = "input"
  /\ calc.b = 0
  /\ Applied("C2D(D2C)", C2D(D2C(calc.a)))

PureNext ==
  \/ ApplyAngularDelta
  \/ ApplyC2D
  \/ ApplyD2C
  \/ ApplySignedDegrees
  \/ ApplyD2CofC2D
  \/ ApplyC2DofD2C

\* --------------------------------------------------------- specifications
Init == AnimInit /\ MouseInit /\ NoControls /\ RestInit

\* the aircraft model and its animations
Spec == Init /\ [][AnimNext]_vars

\* the same when the scheduler keeps delivering frames and time keeps passing
FairSpec ==
  /\ Spec
  /\ WF_vars(Tock)
  /\ WF_vars(BeginFrame)
  /\ WF_vars(SkipCallback)
  /\ WF_vars(RunCallback)

\* one pointer dispatcher, used by an application through its interface
SpecMouse == Init /\ [][MouseNext]_vars

\* the aircraft model and its animations, with callers that keep the cancel
\* functions of the lerps
SpecLerp == Init /\ [][LerpNext]_vars

\* the aircraft model, its animations and its disposal
SpecDispose == Init /\ [][DisposeNext]_vars

\* the change listeners of an emitting object
SpecEmit == Init /\ [][EmitNext]_vars

\* the barometer of an aircraft
InitBaro ==
  /\ BaroInit
  /\ MouseInit
  /\ NoControls
  /\ RestInit

SpecBaro == InitBaro /\ [][BaroNext]_vars

\* the angle helpers, applied to the angles of the model
InitPure ==
  /\ AnimInit
  /\ MouseInit
  /\ NoControls
  /\ LifeInit
  /\ EmitInit
  /\ demo = NoDemo
  /\ calc \in Inputs

SpecPure == InitPure /\ [][PureNext]_vars

\* a page with the two buttons of the attitude indicator, and its pointer
SpecRot == RotInit /\ [][RotNext]_vars

\* the pop-out of the buttons, when the scheduler keeps delivering frames and
\* time keeps passing
SpecPop ==
  /\ RotInit
  /\ [][PopNext]_vars
  /\ WF_vars(Tock)
  /\ WF_vars(BeginFrame)
  /\ WF_vars(RunCallback)

\* an instrument in demo mode and its aircraft
SpecDemo == Init /\ [][DemoNext]_vars

\* the same page with its operations recorded
SpecDrag == DragInit /\ [][DragNext]_vars

\* the page while its controls are displayed at rest, and their disposal
SpecDisposeCtl == RotInit /\ [][DisposeCtlNext]_vars

\* ---------------------------------------------------------------- claims
\* the end of the transition of lerp id
EndTime(id) == anim[id].startTime + anim[id].time

\* C1: under every key at most one animation has a tick pending, it is the
\* one stored under the key, and the cancel function of every animation that
\* was replaced under its key has been called exactly once, that of the
\* stored one never
C1_OneAnimationPerKey ==
  /\ \A f \in Fields :
       /\ Cardinality(ActiveOn(f)) <= 1
       /\ \A id \in ActiveOn(f) : lerps[f] = id
  /\ \A id \in 1..Len(anim) :
       cancelCalls[id] = IF lerps[anim[id].key] = id THEN 0 ELSE 1

\* a transition that had ticked was replaced under its key by a second one,
\* which is in flight and has ticked
C1_Witness ==
  \E id1, id2 \in 1..Len(anim) :
    /\ id1 < id2
    /\ anim[id1].key = anim[id2].key
    /\ ticks[id1] # <<>>
    /\ cancelCalls[id1] = 1
    /\ lerps[anim[id2].key] = id2
    /\ Live(id2)
    /\ ticks[id2] # <<>>

\* C2: after a setter call that came while a transition of the field to
\* another value was in flight, at most one animation of the field is active
\* and, once none is, the field has the value of that last call
C2_ConvergesToLastRequest ==
  \A f \in Fields : \A v \in race[f] :
    /\ Cardinality(ActiveOn(f)) <= 1
    /\ (ActiveOn(f) = {} /\ frameQ = <<>>) => cur[f] = Exact(v)

\* C3: a lerp whose cancel function has returned has no timer call pending
\* and has never ticked after the cancel
C3_NoTickAfterCancel ==
  /\ lateTicks = {}
  /\ \A id \in 1..Len(anim) : cancelCalls[id] > 0 => ~Live(id)

\* a lerp was cancelled by a callback of the running frame while its own
\* timer call was still to come in that frame
C3_Witness ==
  \E id \in 1..Len(anim), i \in 1..Len(frameQ) :
    /\ cancelCalls[id] = 1
    /\ anim[id].requestId = frameQ[i]
    /\ ticks[id] # <<>>

\* the lerps with a pending timer call whose end the clock has reached
Overdue == {id \in 1..Len(anim) : Live(id) /\ now >= EndTime(id)}

\* C4: a lerp whose end the clock has reached does not keep its timer call
\* pending for ever; a lerp without a pending timer call was cancelled or has
\* last delivered exactly the value to; and a lerp that has had its last tick
\* never ticks again
C4_FinalTick ==
  /\ []<>(Overdue = {})
  /\ [](\A id \in 1..Len(anim) :
          \/ Live(id)
          \/ cancelCalls[id] > 0
          \/ /\ anim[id].requestId = 0
             /\ ticks[id] # <<>>
             /\ Last(ticks[id]) = Exact(anim[id].to))
  /\ [][\A id \in 1..Len(anim) :
          anim[id].requestId = 0 => ticks'[id] = ticks[id]]_vars

\* an uncancelled lerp has ticked on the way and has had its last tick
C4_Witness ==
  \E id \in 1..Len(anim) :
    /\ anim[id].requestId = 0
    /\ cancelCalls[id] = 0
    /\ Len(ticks[id]) = 2
    /\ ticks[id][1] # Exact(anim[id].to)
    /\ ticks[id][2] = Exact(anim[id].to)

\* the normalized progress, in hundred-thousandths, at which lerp l delivers
\* the value v = from + normalized * (to - from); -1 when l does not deliver v
Progress(l, v) ==
  IF v = l.from THEN 0
  ELSE IF v = Exact(l.to) THEN SinTable[17]
  ELSE LET n == Len(v.via)
       IN  IF /\ n = Len(l.from.via) + 1
              /\ [v EXCEPT !.via = SubSeq(v.via, 1, n - 1)] = l.from
              /\ v.via[n].to = l.to
              /\ v.via[n].time = l.time
           THEN Normalized(v.via[n].delta, v.via[n].time, v.via[n].ease)
           ELSE 0 - 1

\* C5: every delivered value lies between from and to, and a value is never
\* farther from to than the value delivered before it: every delivered value
\* is from + normalized * (to - from) with normalized between 0 and 1, and
\* normalized never goes down
C5_MonotoneNoOvershoot ==
  \A id \in 1..Len(anim) :
    LET h == ticks[id]
    IN  /\ \A i \in 1..Len(h) :
             /\ 0 <= Progress(anim[id], h[i])
             /\ Progress(anim[id], h[i]) <= SinTable[17]
        /\ Len(h) = 2 => Progress(anim[id], h[1]) <= Progress(anim[id], h[2])

\* an uncancelled lerp has delivered two different values, the second of
\* them strictly between from and to
C5_Witness ==
  \E id \in 1..Len(anim) :
    LET l == anim[id]
        h == ticks[id]
    IN  /\ cancelCalls[id] = 0
        /\ Len(h) = 2
        /\ h[1] # h[2]
        /\ h[2] # Exact(l.to)

\* the listeners of an event registered for a node
EarsOf(event, node) ==
  IF event \in DOMAIN mouse.hash
  THEN {i \in 1..Len(mouse.hash[event]) : mouse.hash[event][i].node = node}
  ELSE {}

\* C6: an event dispatched while a node holds capture invokes exactly the
\* listeners of its type registered for that node, each with isCapturing
\* true, and no listener registered for another node
C6_CaptureRouting ==
  (op.name = "handleEvent" /\ op.before # NoNode) =>
    /\ \A i \in 1..Len(calls) :
         calls[i].node = op.before /\ calls[i].capturing = TRUE
    /\ Len(calls) = Cardinality(EarsOf(op.event, op.before))

\* C7: at most one node of the page holds pointer capture, whatever pointer
\* events the page has received
C7_SingleCapture ==
  Cardinality({r \in Controls : mice[r].captureNode # NoNode}) <= 1

\* the rotation callbacks of control r in the last pointer event
RotationCalls(r) ==
  {i \in 1..Len(out) : out[i].control = r /\ out[i].name = "rotation"}

\* C11: a pointer-move sample of a drag whose angular delta is above the
\* jitter threshold in magnitude is discarded: the rotation callback is not
\* called, and the rotation and lastAngle of the control are what they were
\* before the sample
C11_JitterDiscarded ==
  \A i \in 1..Len(samples) :
    Abs(samples[i].delta) > JITTER_THRESHOLD =>
      /\ RotationCalls(samples[i].control) = {}
      /\ ctl[samples[i].control].rotation = samples[i].rotation
      /\ ctl[samples[i].control].lastAngle = samples[i].lastAngle

\* C8: releaseCapture leaves no node captured and signals no error; it
\* invokes the "releaseCapture" listener of the node that held capture once
\* when there is one and nothing otherwise; called with nothing captured, or
\* right after another releaseCapture, it invokes nothing and changes nothing
C8_ReleaseIdempotent ==
  /\ [](op.name = "releaseCapture" =>
          /\ mouse.captureNode = NoNode
          /\ errors = <<>>
          /\ Len(calls) = IF EarsOf("releaseCapture", op.before) # {} THEN 1 ELSE 0
          /\ \A i \in 1..Len(calls) :
               calls[i].event = "releaseCapture" /\ calls[i].node = op.before)
  /\ [][(op'.name = "releaseCapture"
           /\ (mouse.captureNode = NoNode \/ op.name = "releaseCapture"))
          => (mouse' = mouse /\ calls' = <<>> /\ errors' = <<>>)]_vars

\* releaseCapture was called while a node with a "releaseCapture" listener
\* held capture
C8_Witness ==
  /\ op.name = "releaseCapture"
  /\ op.before # NoNode
  /\ Len(calls) = 1

\* C9: setCapture(B) while A holds capture invokes the "releaseCapture"
\* listener of A (if any) once, then the "setCapture" listener of B (if any)
\* once, nothing else, and leaves B captured
C9_SetCaptureReleasesFirst ==
  (op.name = "setCapture" /\ op.before # NoNode) =>
    LET rel == IF EarsOf("releaseCapture", op.before) # {} THEN 1 ELSE 0
        set == IF EarsOf("setCapture", op.node) # {} THEN 1 ELSE 0
    IN  /\ mouse.captureNode = op.node
        /\ Len(calls) = rel + set
        /\ rel = 1 =>
             calls[1].event = "releaseCapture" /\ calls[1].node = op.before
        /\ set = 1 =>
             /\ calls[Len(calls)].event = "setCapture"
             /\ calls[Len(calls)].node = op.node

\* setCapture(B) was called while another node A held capture, both with
\* their listener
C9_Witness ==
  /\ op.name = "setCapture"
  /\ op.before # NoNode
  /\ op.before # op.node
  /\ Len(calls) = 2

\* C10: unregister signals an error exactly when the registrations matching
\* all four fields are none or more than one, and removes the registration
\* when exactly one matches
C10_UnregisterErrors ==
  op.name = "unregister" =>
    /\ (errors # <<>>) <=> (op.matches # 1)
    /\ op.matches = 1 =>
         Matching(mouse.hash, op.event, op.node, op.callback,
                  op.includeDescendants) = 0

\* C12: for angles a and b, angularDelta(a, b) ends with a value between -180
\* and 180 that is congruent to b - a modulo 360, and that is b - a itself
\* when b is within half a turn of a; from 350 to 10 it is 20, from 10 to
\* 350 it is -20
C12_AngularDelta ==
  calc.name = "angularDelta" =>
    /\ (0 - 180) <= calc.result /\ calc.result <= 180
    /\ (calc.result - (calc.b - calc.a)) % 360 = 0
    /\ (calc.b - calc.a \in (0 - 180)..180) => calc.result = calc.b - calc.a
    /\ (calc.a = 350 /\ calc.b = 10) => calc.result = 20
    /\ (calc.a = 10 /\ calc.b = 350) => calc.result = 0 - 20

\* angularDelta was applied across the wraparound, from 350 to 10
C12_Witness ==
  /\ calc.name = "angularDelta"
  /\ calc.a = 350
  /\ calc.b = 10
  /\ calc.result = 20

\* C16: for every angle, negative angles and angles of a turn or more
\* included, C2D and D2C return a value of [0, 360)
C16_ConversionsNormalized ==
  calc.name \in {"C2D", "D2C"} => (0 <= calc.result /\ calc.result < 360)

\* C13: after setBarometer(v, immediate = true) the barometer is v, and no
\* animation tick changes it until the next setBarometer call
C13_ImmediateHolds ==
  \A v \in pinned : cur["barometer"] = Exact(v)

\* the registrations of an event that an event targeting node n reaches
\* when nothing is captured: those of n, and those of a node that contains n
\* and includes its descendants
Reached(event, n) ==
  IF event \in DOMAIN mouse.hash
  THEN {i \in 1..Len(mouse.hash[event]) :
          \/ mouse.hash[event][i].node = n
          \/ /\ mouse.hash[event][i].includeDescendants
             /\ IsAncestor(mouse.hash[event][i].node, n)}
  ELSE {}

\* C14: an event dispatched while nothing is captured invokes exactly the
\* registrations of its type that it reaches, each once and with isCapturing
\* false, registrations of one node with different callbacks included
C14_UncapturedRouting ==
  (op.name = "handleEvent" /\ op.before = NoNode) =>
    /\ Len(calls) = Cardinality(Reached(op.event, op.node))
    /\ \A j \in 1..Len(calls) : calls[j].capturing = FALSE
    /\ \A i \in Reached(op.event, op.node) :
         \E j \in 1..Len(calls) :
           /\ calls[j].event = op.event
           /\ calls[j].node = mouse.hash[op.event][i].node
           /\ calls[j].callback = mouse.hash[op.event][i].callback

\* with nothing captured, an event targeting a shape inside a node invoked
\* two listeners of that node with different callbacks
C14_Witness ==
  /\ op.name = "handleEvent"
  /\ op.before = NoNode
  /\ Len(calls) = 2
  /\ calls[1].node # op.node
  /\ calls[1].node = calls[2].node
  /\ calls[1].callback # calls[2].callback

\* C15: unregister of a registration whose node holds capture leaves nothing
\* captured and invokes the "releaseCapture" listener of the node once if it
\* is still registered, and nothing else; any other unregister leaves the
\* capture as it was and invokes nothing
C15_UnregisterReleases ==
  op.name = "unregister" =>
    IF op.matches >= 1 /\ op.before # NoNode /\ op.node = op.before
    THEN /\ mouse.captureNode = NoNode
         /\ Len(calls) <= 1
         /\ \A j \in 1..Len(calls) :
              calls[j].event = "releaseCapture" /\ calls[j].node = op.before
         /\ EarsOf("releaseCapture", op.before) # {} => Len(calls) = 1
    ELSE /\ mouse.captureNode = op.before
         /\ calls = <<>>

\* a listener of a native event of the node that held capture was
\* unregistered, and the "releaseCapture" listener of the node was invoked
C15_Witness ==
  /\ op.name = "unregister"
  /\ op.event = "mousemove"
  /\ op.matches = 1
  /\ op.node = op.before
  /\ Len(calls) = 1

\* C17: when dispose() returns the keyed animation set of the aircraft is
\* empty, and from then on no animation that existed at the call has a timer
\* call pending or ticks
C17_DisposeCancelsAll ==
  /\ [](disposed => \A id \in atDispose : ~Live(id) /\ id \notin lateTicks)
  /\ [][(~disposed /\ disposed') => \A f \in DOMAIN lerps' : lerps'[f] = 0]_vars
  /\ [][disposed => \A id \in atDispose : ticks'[id] = ticks[id]]_vars

\* the aircraft was disposed while an animation was in flight that had
\* ticked before, and the clock has since reached the end of that animation
C17_Witness ==
  /\ disposed
  /\ \E id \in atDispose :
       /\ \A j \in 1..Len(anim) : anim[j].key = anim[id].key => j <= id
       /\ cancelCalls[id] = 1
       /\ ticks[id] # <<>>
       /\ Last(ticks[id]) # Exact(anim[id].to)
       /\ now >= EndTime(id)

\* C18: the change listeners of an object never hold the same callback
\* twice, and a notification invokes no listener more than once
C18_NoDuplicateListeners ==
  /\ \A i, j \in 1..Len(listeners) : listeners[i] = listeners[j] => i = j
  /\ \A i, j \in 1..Len(notified) : notified[i] = notified[j] => i = j

\* C19: a call of the cancel function of a lerp that was cancelled before or
\* has had its last tick changes nothing but the count of its calls, and no
\* lerp loses its pending timer call by the cancel function of another one:
\* a lerp that was never cancelled and has not had its last tick has a
\* timer call pending
C19_CancelAgainNoop ==
  /\ [](\A id \in 1..Len(anim) :
          (cancelCalls[id] = 0 /\ anim[id].requestId # 0) => Live(id))
  /\ [][(Len(anim') = Len(anim) /\ frameQ' = frameQ /\ now' = now
           /\ cancelCalls' # cancelCalls)
          => (raf' = raf /\ cur' = cur /\ anim' = anim /\ lerps' = lerps
              /\ ticks' = ticks /\ lateTicks' = lateTicks)]_vars

\* the cancel function of a replaced lerp was called a second time while the
\* lerp that replaced it under its key is in flight
C19_Witness ==
  \E id1, id2 \in 1..Len(anim) :
    /\ id1 < id2
    /\ anim[id1].key = anim[id2].key
    /\ cancelCalls[id1] >= 2
    /\ cancelCalls[id2] = 0
    /\ Live(id2)
    /\ ticks[id2] # <<>>

\* the lerps of field f that a step creates
Started(f) ==
  {id \in (Len(anim) + 1)..Len(anim') : anim'[id].key = f}

\* C20: a step starts an animation of a field exactly when a setter call
\* requests a value that differs from the value most recently requested of
\* the field, and the animation runs from the current value to that value
C20_StartsIffNewTarget ==
  [][\A f \in Fields :
       /\ (Started(f) # {}) <=> (requested'[f] # requested[f])
       /\ \A id \in Started(f) :
            /\ anim'[id].from = cur'[f]
            /\ anim'[id].to = requested'[f]]_vars

\* control r is dragging: its dispatcher has its node captured
Dragging(r) == mice[r].captureNode = Node(r)

\* the dispatcher of control r routes a pointer event with the target to the
\* listeners of the control
Routed(r, target) ==
  \/ mice[r].captureNode # NoNode
  \/ target = Node(r)
  \/ IsAncestor(Node(r), target)

\* C21: a control is dragging exactly between a pointer-down routed to it
\* and the next pointer-up: a pointer-down routed to the control records the
\* pointer angle and takes capture, a pointer-up releases capture, nothing
\* else changes whether the control is dragging, and the rotation callback is
\* invoked only by a pointer-move that finds the control dragging
C21_DragBetweenDownAndUp ==
  [][\A r \in Controls :
       /\ (pev'.type = "mousedown" /\ Routed(r, pev'.target)) =>
            /\ ctl'[r].lastAngle = angleFrom(pev'.dir[r])
            /\ Dragging(r)'
       /\ pev'.type = "mouseup" => ~Dragging(r)'
       /\ Dragging(r)' # Dragging(r) =>
            \/ pev'.type = "mousedown" /\ Routed(r, pev'.target)
            \/ pev'.type = "mouseup"
       /\ (pev'.type \in {"mousedown", "mousemove", "mouseup"}
             /\ RotationCalls(r)' # {}) =>
            /\ pev'.type = "mousemove"
            /\ Dragging(r)]_vars

\* a drag of control 1 is ended by a pointer-up after it has turned the
\* control, on the page that displays the cage button popped out: the
\* pointer has a direction of 10 from control 1 on that page alone
C21_Witness ==
  /\ pev.type = "mouseup"
  /\ ~Dragging(1)
  /\ ctl[1].rotation # 0
  /\ ctl[1].lastAngle = 10
  /\ cur[ScaleKey(2)] = Exact(POP_SCALE)
  /\ ctl[2].lastAngle = 45

\* C22: a pointer-move sample of a drag whose angular delta is at most the
\* jitter threshold in magnitude, a delta of exactly the threshold included,
\* is accepted: the rotation callback is called exactly once, with delta *
\* gear, the rotation has increased by delta, and lastAngle is the angle of
\* the pointer
C22_SmallDeltaAccepted ==
  \A i \in 1..Len(samples) :
    LET r == samples[i].control
        delta == samples[i].delta
    IN  (samples[i].lastAngle # NoAngle /\ Abs(delta) <= JITTER_THRESHOLD) =>
          /\ Cardinality(RotationCalls(r)) = 1
          /\ \A j \in RotationCalls(r) : out[j].value = delta * Gear(r)
          /\ ctl[r].rotation = samples[i].rotation + delta
          /\ ctl[r].lastAngle = angleFrom(pev.dir[r])

\* the click callbacks of control r in the last pointer event
ClickCalls(r) ==
  {i \in 1..Len(out) : out[i].control = r /\ out[i].name = "click"}

\* C23: a control invokes its click callback, or toggles its popState, only
\* on a pointer-up that ends a drag of this control, and only when the control
\* is click-only and the drag has not turned it; any other pointer-up fires
\* no click and toggles nothing
C23_ClickEndsDrag ==
  [][\A r \in Controls :
       (\/ ctl'[r].popState # ctl[r].popState
        \/ pev'.type = "mouseup" /\ ClickCalls(r)' # {}) =>
         /\ pev'.type = "mouseup"
         /\ Dragging(r)
         /\ HasClickCallback(r)
         /\ ~HasRotationCallback(r)
         /\ ctl[r].rotation = 0]_vars

\* C24: signedDegreesToPositive360(v) is, for every signed integer v, those
\* below -360 and those of 360 or more included, the angle of [0, 360) that
\* is congruent to v modulo 360
C24_SignedDegreesNormalized ==
  calc.name = "signedDegreesToPositive360" =>
    /\ 0 <= calc.result
    /\ calc.result < 360
    /\ calc.result = calc.a % 360

\* C25: C2D and D2C are mutual inverses modulo 360: for every integer angle
\* a, D2C(C2D(a)) and C2D(D2C(a)) are congruent to a modulo 360
C25_MutualInverses ==
  calc.name \in {"D2C(C2D)", "C2D(D2C)"} =>
    (calc.result - calc.a) % 360 = 0

\* C26: once a control is disposed, no later pointer event invokes its
\* rotation callback or its click callback
C26_DisposedControlSilent ==
  \A r \in Controls :
    ctl[r].disposed => (RotationCalls(r) = {} /\ ClickCalls(r) = {})

\* C27: whatever pointer events the page receives, when the pointer-move
\* handler of a control runs in capturing mode its lastAngle has been set by
\* a pointer-down on the control: the assertion "lastAngle must be set" never
\* fails
C27_LastAngleSet ==
  /\ \A i \in 1..Len(perr) : perr[i] # "lastAngle must be set"
  /\ \A i \in 1..Len(samples) : samples[i].lastAngle # NoAngle
  /\ \A r \in Controls : Dragging(r) => ctl[r].lastAngle # NoAngle

\* the pointer-move handler of control 1 has run in capturing mode, on the
\* page that displays the cage button popped out, after a pointer-down on
\* that page
C27_Witness ==
  /\ pev.type = "mousemove"
  /\ cur[ScaleKey(2)] = Exact(POP_SCALE)
  /\ \E i \in 1..Len(samples) :
       /\ samples[i].control = 1
       /\ samples[i].lastAngle = 10

\* this step creates a lerp that writes field f: a setter of f was called
\* with a new value
Created(f) ==
  /\ Len(anim') = Len(anim) + 1
  /\ anim'[Len(anim')].key = f

\* this step is the frame calling the timer of lerp id
Ticking(id) ==
  /\ frameQ # <<>>
  /\ Head(frameQ) \in DOMAIN raf
  /\ raf[Head(frameQ)] = id

\* C28: the animations of different fields are independent: a step cancels,
\* replaces or stops the animation of a field only when it is a setter call
\* of that field or the last tick of that animation, never retargets an
\* animation, and changes the value of a field only by a tick of an animation
\* of that field
C28_FieldsIndependent ==
  [][/\ \A f \in Fields :
          /\ lerps'[f] # lerps[f] => Created(f)
          /\ cur'[f] # cur[f] =>
               \E id \in 1..Len(anim) : anim[id].key = f /\ Ticking(id)
     /\ \A id \in 1..Len(anim) :
          /\ cancelCalls'[id] # cancelCalls[id] => Created(anim[id].key)
          /\ (Live(id) /\ ~Live(id)') =>
               (Created(anim[id].key) \/ Ticking(id))
          /\ anim'[id].key = anim[id].key
          /\ anim'[id].from = anim[id].from
          /\ anim'[id].to = anim[id].to
          /\ anim'[id].startTime = anim[id].startTime
          /\ anim'[id].time = anim[id].time]_vars

\* an animation of one field has ticked and is still in flight, not
\* cancelled, after a setter of another field started a later animation
C28_Witness ==
  \E id, later \in 1..Len(anim) :
    /\ id < later
    /\ anim[id].key # anim[later].key
    /\ anim[later].startTime > anim[id].startTime
    /\ Live(id)
    /\ Live(later)
    /\ cancelCalls[id] = 0
    /\ Len(ticks[id]) = 2
    /\ ticks[later] # <<>>

\* the intervals of the instrument that are active: the browser holds their
\* timer, or their leading call would still invoke the callback
ActiveDemos ==
  {id \in 1..Len(demo.ivs) :
     demo.ivs[id].timer \in demo.sys
       \/ (demo.ivs[id].lead /\ demo.ivs[id].timer # 0)}

\* C29: the instrument has at most one active demo interval however often
\* demoStart is called, none after demoStop or after its disposal until
\* demoStart is called again, and the callback of an interval that was
\* cancelled is not invoked again, by the timer or by the leading call that
\* was still pending
C29_DemoSingleAndStopped ==
  /\ Cardinality(ActiveDemos) <= 1
  /\ demo.lerp = 0 => ActiveDemos = {}
  /\ \A id \in 1..Len(demo.ivs) :
       /\ ~demo.ivs[id].late
       /\ demo.ivs[id].cancelled => id \notin ActiveDemos

\* demoStart was called more than once, and the leading call of an interval
\* ran after the interval was cancelled, and the instrument is disposed
C29_Witness ==
  /\ Len(demo.ivs) >= 2
  /\ demo.disposed
  /\ \E id \in 1..Len(demo.ivs) :
       /\ demo.ivs[id].cancelled
       /\ ~demo.ivs[id].lead
       /\ ~demo.ivs[id].invoked
  /\ \E id \in 1..Len(demo.ivs) : demo.ivs[id].invoked

\* the display scale popState calls for, in hundredths
PopTarget(r) == IF ctl[r].popState THEN POP_SCALE ELSE 100

\* C30: the display scale follows popState: a control never has more than
\* one scale animation in flight, and once the toggles have stopped the
\* display scale becomes, and stays, POP_SCALE when popState is true and 1
\* when it is false
C30_ScaleFollowsPopState ==
  /\ [](\A r \in Controls : Cardinality(ActiveOn(ScaleKey(r))) <= 1)
  /\ <>[](\A r \in Controls :
            cur[ScaleKey(r)] = Exact(PopTarget(r)))

\* the cage button has popped out, its display scale has reached POP_SCALE,
\* and after a second toggle its display scale is back at 1
C30_Witness ==
  /\ Len(anim) = Cardinality(Controls) + 2
  /\ ~ctl[2].popState
  /\ cur[ScaleKey(2)] = Exact(100)
  /\ anim[Len(anim) - 1].to = POP_SCALE
  /\ ticks[Len(anim) - 1] # <<>>
  /\ Last(ticks[Len(anim) - 1]) = Exact(POP_SCALE)
  /\ anim[Len(anim)].from = Exact(POP_SCALE)
  /\ anim[Len(anim)].requestId = 0

====
